---- MODULE Spec2Model ----
(***************************************************************************)
(* Model of src/timelogger.py: the WorkLogger store and the commands of     *)
(* its menu loop.                                                           *)
(*                                                                         *)
(* Representation                                                          *)
(*   - A calendar date is a day number; day 0 is a Monday, so              *)
(*     date.weekday() is d % 7.                                            *)
(*   - A key of self.data is a pair <<d, f>>: f = 0 is the zero-padded     *)
(*     string that strftime("%Y-%m-%d") writes, f = 1 is a non-padded      *)
(*     spelling of the same date ("2024-1-2"), which strptime accepts and  *)
(*     edit_past_day uses verbatim as the key.  SETTINGS is 'settings'.    *)
(*   - A Python dict is a function; a field is present iff its name is in  *)
(*     the DOMAIN.  {} is the function with the empty domain.              *)
(*   - A time of day is its number of minutes after 00:00 (no command      *)
(*     compares two time strings, only the times they parse to); the clock *)
(*     read by datetime.now() also carries seconds.                        *)
(*   - hours_worked is kept in hundredths of an hour (round(x, 2) * 100).  *)
(*   - disk is the content of the JSON file, NoFile before the first save. *)
(*   - The time of day shown by the clock is an input of the command that  *)
(*     reads it; every start and end it yields can also be typed.          *)
(***************************************************************************)
EXTENDS Integers, FiniteSets, Sequences, TLC

(* ---------------------------- bounds ---------------------------------- *)
\* most date entries the store holds at once
MaxEntries == 2

(* ---------------------------- inputs ---------------------------------- *)
\* the days on which the program is used: a Tuesday and the Monday after it
Days == {1, 7}
FirstDay == CHOOSE d \in Days : \A x \in Days : d <= x
\* 09:00 and 17:00
Times == {540, 1020}
\* seconds shown by the clock when datetime.now() is read
NowSeconds == {0, 45}
\* nothing typed; text that is not HH:MM
EMPTY == -1
BAD == -2
TimeInputs == Times \cup {EMPTY, BAD}

\* the key 'settings'; nothing typed at a date prompt; text that is no date
SETTINGS == <<-1, 0>>
EMPTY_DATE == <<-2, 0>>
BAD_DATE == <<-3, 0>>
\* dates typed at the prompts: each day zero-padded, the Tuesday also non-padded
DateKeys == {<<d, 0>> : d \in Days} \cup {<<FirstDay, 1>>}
EditInputs == DateKeys \cup {EMPTY_DATE, BAD_DATE}
DeleteInputs == DateKeys \cup {EMPTY_DATE, BAD_DATE, SETTINGS}

\* menu choices of configure_lunch_break that are tried, and custom durations
LunchChoices == {"5", "6", "7", "x"}
CustomInputs == {30, 121, BAD}

\* clock minutes at which the counter is displayed: 09:00, 10:10, 13:00, 13:01, 17:00
DisplayTimes == Times \cup {610, 780, 781}
\* a week at work before its Friday: Monday to Thursday, each begun at 08:00 and
\* ended at 13:30, 14:30, 15:30 or 17:00
WorkedDays == 0 .. 3
Friday == 4
WorkedStart == 480
WorkedEnds == {810, 870, 930, 1020}

VARIABLES data, disk, today, last, before, shown, logged_on
vars == <<data, disk, today, last, before, shown, logged_on>>

(* ---------------------------- dict helpers ---------------------------- *)
EmptyDict == [x \in {} |-> 0]
SetItem(d, k, v) == [x \in (DOMAIN d) \cup {k} |-> IF x = k THEN v ELSE d[x]]
DelItem(d, k) == [x \in (DOMAIN d) \ {k} |-> d[x]]
Has(e, f) == f \in DOMAIN e
EntryKeys(d) == (DOMAIN d) \ {SETTINGS}
strftime(d) == <<d, 0>>

(* ---------------------------- arithmetic ------------------------------ *)
\* int(x) for x = n / d: truncation toward zero
Trunc(n, d) == IF n >= 0 THEN n \div d ELSE -((-n) \div d)
\* round(n / d) to the nearest integer.  An exact half, where the binary value
\* of the float decides in Python, is not produced by whole minutes nor by
\* the seconds of NowSeconds; it is given to the even neighbour here.
RoundDiv(n, d) ==
  LET q == n \div d
      r == n % d
  IN IF 2 * r < d THEN q
     ELSE IF 2 * r > d THEN q + 1
     ELSE IF q % 2 = 0 THEN q ELSE q + 1

\* (end_datetime - start_datetime).total_seconds() - 60 * lunch_minutes
worked_seconds(start, end, sec, lunch) ==
  LET s == start * 60
      e == end * 60 + sec
      e2 == IF e < s THEN e + 86400 ELSE e
  IN (e2 - s) - 60 * lunch
\* round(worked_hours, 2), in hundredths
hours_worked_of(start, end, sec, lunch) == RoundDiv(worked_seconds(start, end, sec, lunch), 36)
\* int(worked_minutes)
total_minutes_of(start, end, sec, lunch) == Trunc(worked_seconds(start, end, sec, lunch), 60)

get_lunch_break_minutes(d) == d[SETTINGS]["lunch_break_minutes"]

\* mutant: only hours_worked is stored
WithDerived_hours_only(e, sec, lunch) ==
  SetItem(e, "hours_worked", hours_worked_of(e["start"], e["end"], sec, lunch))
WithDerived(e, sec, lunch) ==
  SetItem(SetItem(e, "hours_worked", hours_worked_of(e["start"], e["end"], sec, lunch)),
          "total_minutes", total_minutes_of(e["start"], e["end"], sec, lunch))

(* ---------------------------- helpers of WorkLogger ------------------- *)
DefaultStore == [k \in {SETTINGS} |-> [f \in {"lunch_break_minutes"} |-> 30]]
NoFile == EmptyDict

load_data(file) == IF DOMAIN file = {} THEN DefaultStore ELSE file

\* mutant: the store is not cleared
clear_previous_entries_keeps_all(d) == d
clear_previous_entries(d) == [k \in {SETTINGS} |-> d[SETTINGS]]

is_first_monday_input(d, target) ==
  /\ target % 7 = 0
  /\ \/ strftime(target) \notin DOMAIN d
     \/ DOMAIN d[strftime(target)] = {}

get_week_start(date) == date - (date % 7)

RECURSIVE WeekSum(_, _, _)
WeekSum(d, week_start, i) ==
  IF i = 7 THEN 0
  ELSE LET k == strftime(week_start + i)
       IN (IF k \in DOMAIN d /\ Has(d[k], "hours_worked") THEN d[k]["hours_worked"] ELSE 0)
          + WeekSum(d, week_start, i + 1)
get_weekly_hours(d, target) == WeekSum(d, get_week_start(target), 0)

\* mutant: the sweep recomputes nothing
recalculate_all_entries_skipped(d) == d
recalculate_all_entries(d) ==
  LET lunch == get_lunch_break_minutes(d)
  IN [k \in DOMAIN d |->
        IF k = SETTINGS THEN d[k]
        ELSE IF Has(d[k], "start") /\ Has(d[k], "end") THEN WithDerived(d[k], 0, lunch)
        ELSE d[k]]

(* ---------------------------- projection ------------------------------ *)
\* get_current_work_time: None is the empty record; a time_to_leave of None is
\* EMPTY. weekly_hours is in hundredths of an hour, so the minutes needed for
\* 35 h are counted in fifths of a minute (needed5).
NoInfo == EmptyDict

\* a session is active: the day's entry has a start and no end
Active(d, day) ==
  /\ strftime(day) \in DOMAIN d
  /\ Has(d[strftime(day)], "start")
  /\ ~Has(d[strftime(day)], "end")

\* mutant: the projection is shown from 27 h on
show_35h_target_at_27(weekly_hours) == weekly_hours >= 2700
show_35h_target(weekly_hours) == weekly_hours > 2700

get_current_work_time(d, day, now, sec) ==
  LET k == strftime(day)
      start_time == d[k]["start"]
      total_minutes == Trunc((now * 60 + sec) - start_time * 60, 60)
      lunch_minutes == get_lunch_break_minutes(d)
      work_minutes == total_minutes - (IF total_minutes > 240 THEN lunch_minutes ELSE 0)
      weekly_hours == get_weekly_hours(d, day)
      target_total_minutes == 420 + lunch_minutes
      minutes_until_7h == target_total_minutes - total_minutes
      needed5 == 3 * (3500 - weekly_hours) - 5 * work_minutes
      show == show_35h_target(weekly_hours)
      counted == show /\ needed5 > 0
      needed5_for_35h == IF counted /\ total_minutes <= 240 THEN needed5 + 5 * lunch_minutes
                         ELSE needed5
      minutes_needed == Trunc(needed5_for_35h, 5)
  IN IF ~Active(d, day) THEN NoInfo
     ELSE [start_time |-> start_time,
           elapsed_hours |-> total_minutes \div 60,
           elapsed_minutes |-> total_minutes % 60,
           work_hours |-> work_minutes \div 60,
           work_minutes |-> work_minutes % 60,
           total_work_minutes |-> work_minutes,
           weekly_hours |-> weekly_hours,
           lunch_minutes |-> lunch_minutes,
           time_to_leave_7h |-> IF minutes_until_7h > 0
                                THEN (start_time + target_total_minutes) % 1440 ELSE EMPTY,
           hours_until_7h |-> IF minutes_until_7h > 0 THEN minutes_until_7h \div 60 ELSE 0,
           mins_until_7h |-> IF minutes_until_7h > 0 THEN minutes_until_7h % 60 ELSE 0,
           daily_target_reached |-> minutes_until_7h <= 0,
           show_35h_target |-> show,
           time_to_leave_35h |-> IF counted
                                 THEN ((5 * (start_time + total_minutes) + needed5_for_35h) \div 5) % 1440
                                 ELSE EMPTY,
           hours_until_35h |-> IF counted THEN minutes_needed \div 60 ELSE 0,
           mins_until_35h |-> IF counted THEN minutes_needed % 60 ELSE 0,
           weekly_target_reached |-> needed5 <= 0,
           minutes_needed_for_35h |-> IF minutes_needed > 0 THEN minutes_needed ELSE 0]

(* ---------------------------- commands -------------------------------- *)
\* What a command leaves behind: the in-memory store, the file, the message.
Outcome(d, f, m) == [data |-> d, disk |-> f, msg |-> m]

\* Top of log_start and of log_end: the Monday check and the clearing.
AfterMondayCheck(d, f, day) ==
  IF is_first_monday_input(d, day)
  THEN Outcome(clear_previous_entries(d), clear_previous_entries(d), "cleared")
  ELSE Outcome(d, f, "kept")

EntryAt(d, k) == IF k \in DOMAIN d THEN d[k] ELSE EmptyDict

\* log_start(time_str): t is the text typed (EMPTY: the clock is read).
log_start(d, f, day, t, now) ==
  LET c == AfterMondayCheck(d, f, day)
      k == strftime(day)
      start == IF t = EMPTY THEN now ELSE t
      d2 == SetItem(c.data, k, SetItem(EntryAt(c.data, k), "start", start))
  IN IF t = BAD THEN Outcome(c.data, c.disk, "InvalidTimeFormat")
     ELSE Outcome(d2, d2, "ok")

\* log_end(time_str): the clock's seconds stay in end_time when it is read.
log_end(d, f, day, t, now, sec) ==
  LET c == AfterMondayCheck(d, f, day)
      k == strftime(day)
      d2 == IF k \in DOMAIN c.data THEN c.data ELSE SetItem(c.data, k, EmptyDict)
      end == IF t = EMPTY THEN now ELSE t
      s == IF t = EMPTY THEN sec ELSE 0
      e3 == WithDerived(SetItem(d2[k], "end", end), s, get_lunch_break_minutes(d2))
      d3 == SetItem(d2, k, e3)
  IN IF t = BAD THEN Outcome(c.data, c.disk, "InvalidTimeFormat")
     ELSE IF ~Has(d2[k], "start") THEN Outcome(d2, c.disk, "MissingStart")
     ELSE Outcome(d3, d3, "ok")

\* set_lunch_break_minutes followed by recalculate_all_entries
set_lunch_break_minutes(d, minutes) ==
  SetItem(d, SETTINGS, SetItem(d[SETTINGS], "lunch_break_minutes", minutes))

configure_lunch_break(d, f, choice, custom) ==
  LET new_minutes == CASE choice = "1" -> 0
                       [] choice = "2" -> 15
                       [] choice = "3" -> 30
                       [] choice = "4" -> 45
                       [] choice = "5" -> 60
                       [] OTHER -> custom
      d2 == recalculate_all_entries(set_lunch_break_minutes(d, new_minutes))
  IN IF choice = "7" THEN Outcome(d, f, "cancelled")
     ELSE IF choice \notin {"1", "2", "3", "4", "5", "6"} THEN Outcome(d, f, "InvalidChoice")
     ELSE IF choice = "6" /\ (custom = BAD \/ custom < 0 \/ custom > 120)
          THEN Outcome(d, f, "InvalidLunchDuration")
     ELSE Outcome(d2, d2, "ok")

\* strptime(date_input, "%Y-%m-%d") succeeds
IsDate(k) == k[1] >= 0

\* mutant: the typed text is stored without being parsed
apply_time_unvalidated(e, field, text) ==
  IF text # EMPTY THEN SetItem(e, field, text) ELSE e
\* one time prompt of edit_past_day: text that parses as HH:MM is stored
apply_time(e, field, text) ==
  IF text \notin {EMPTY, BAD} THEN SetItem(e, field, text) ELSE e

edit_past_day(d, f, date_input, new_start, new_end) ==
  LET d1 == IF date_input \in DOMAIN d THEN d ELSE SetItem(d, date_input, EmptyDict)
      e3 == apply_time(apply_time(d1[date_input], "start", new_start), "end", new_end)
      e4 == IF Has(e3, "start") /\ Has(e3, "end")
            THEN WithDerived(e3, 0, get_lunch_break_minutes(d1)) ELSE e3
      d4 == SetItem(d1, date_input, e4)
  IN IF EntryKeys(d) = {} THEN Outcome(d, f, "NoLogs")
     ELSE IF date_input = EMPTY_DATE THEN Outcome(d, f, "cancelled")
     ELSE IF ~IsDate(date_input) THEN Outcome(d, f, "InvalidDateFormat")
     ELSE Outcome(d4, d4, IF date_input \in DOMAIN d THEN "saved" ELSE "created")

\* mutant: the entry is deleted whatever the answer to the confirmation
delete_day_unconfirmed(d, f, date_input, confirm) ==
  IF EntryKeys(d) = {} THEN Outcome(d, f, "NoLogs")
  ELSE IF date_input = EMPTY_DATE THEN Outcome(d, f, "cancelled")
  ELSE IF date_input \notin DOMAIN d \/ date_input = SETTINGS THEN Outcome(d, f, "EntryNotFound")
  ELSE Outcome(DelItem(d, date_input), DelItem(d, date_input),
               IF confirm THEN "deleted" ELSE "DeletionCancelled")
delete_day(d, f, date_input, confirm) ==
  IF EntryKeys(d) = {} THEN Outcome(d, f, "NoLogs")
  ELSE IF date_input = EMPTY_DATE THEN Outcome(d, f, "cancelled")
  ELSE IF date_input \notin DOMAIN d \/ date_input = SETTINGS THEN Outcome(d, f, "EntryNotFound")
  ELSE IF confirm THEN Outcome(DelItem(d, date_input), DelItem(d, date_input), "deleted")
  ELSE Outcome(d, f, "DeletionCancelled")

(* ---------------------------- state machine --------------------------- *)
\* last: the command main() ran last, what was typed (key, s, e), what the
\* clock showed if it was read (minute and seconds) and the message; op = "menu"
\* while the loop waits at the menu.
\* before: self.data as it was when that command began.
\* shown: what display_work_counter showed last, NoInfo once the menu is back.
\* logged_on: the day of the latest log_start or log_end that was issued before
\* the command in last, EMPTY when there was none.
NoClock == <<EMPTY, 0>>
Logged(op, k, s, e, c, m) == [op |-> op, key |-> k, s |-> s, e |-> e, clock |-> c, msg |-> m]
Last(op, k, s, e, m) == Logged(op, k, s, e, NoClock, m)
AtMenu == Last("menu", EMPTY_DATE, EMPTY, EMPTY, "ok")

Fits(d) == Cardinality(EntryKeys(d)) <= MaxEntries

Init ==
  /\ data = load_data(NoFile)
  /\ disk = NoFile
  /\ today = FirstDay
  /\ last = AtMenu
  /\ before = load_data(NoFile)
  /\ shown = NoInfo
  /\ logged_on = EMPTY

Apply(r, l) ==
  /\ last = AtMenu
  /\ Fits(r.data)
  /\ data' = r.data
  /\ disk' = r.disk
  /\ last' = l
  /\ before' = data
  /\ UNCHANGED <<today, shown, logged_on>>

\* the clock is read only when nothing is typed
ClockFor(t, readings) == IF t = EMPTY THEN readings ELSE {0}
Reading(t, now, sec) == IF t = EMPTY THEN <<now, sec>> ELSE NoClock

LogStart ==
  \E t \in TimeInputs : \E now \in ClockFor(t, Times) :
    LET r == log_start(data, disk, today, t, now)
    IN Apply(r, Logged("log_start", strftime(today), t, EMPTY, Reading(t, now, 0), r.msg))

LogEnd ==
  \E t \in TimeInputs : \E now \in ClockFor(t, Times), sec \in ClockFor(t, NowSeconds) :
    LET r == log_end(data, disk, today, t, now, sec)
    IN Apply(r, Logged("log_end", strftime(today), EMPTY, t, Reading(t, now, sec), r.msg))

ConfigureLunch ==
  \E choice \in LunchChoices : \E custom \in (IF choice = "6" THEN CustomInputs ELSE {BAD}) :
    LET r == configure_lunch_break(data, disk, choice, custom)
    IN Apply(r, Last("configure_lunch", SETTINGS, EMPTY, EMPTY, r.msg))

\* what can be typed at a prompt that is reached; EMPTY when it is not reached
Typed(reached, inputs, none) == IF reached THEN inputs ELSE {none}

\* the date prompt needs a store with entries, the time prompts a well-formed date
EditPastDay ==
  \E k \in Typed(EntryKeys(data) # {}, EditInputs, EMPTY_DATE) :
    \E s \in Typed(IsDate(k), TimeInputs, EMPTY), e \in Typed(IsDate(k), TimeInputs, EMPTY) :
      LET r == edit_past_day(data, disk, k, s, e)
      IN Apply(r, Last("edit_past_day", k, s, e, r.msg))

\* the confirmation is asked only for a date that has an entry
DeleteDay ==
  \E k \in Typed(EntryKeys(data) # {}, DeleteInputs, EMPTY_DATE) :
    \E confirm \in Typed(k \in EntryKeys(data), BOOLEAN, FALSE) :
      LET r == delete_day(data, disk, k, confirm)
      IN Apply(r, Last("delete_day", k, EMPTY, EMPTY, r.msg))

\* view_today, view_week, view_all: nothing is written
View ==
  /\ last = AtMenu
  /\ last' = Last("view", EMPTY_DATE, EMPTY, EMPTY, "ok")
  /\ before' = data
  /\ UNCHANGED <<data, disk, today, shown, logged_on>>

\* display_work_counter at the top of the loop: the clock is read when a
\* session is active, and what get_current_work_time returns is shown
DisplayCounter ==
  /\ last = AtMenu
  /\ \E now \in Typed(Active(data, today), DisplayTimes, EMPTY) :
       \E sec \in Typed(Active(data, today), NowSeconds, 0) :
         /\ shown' = get_current_work_time(data, today, now, sec)
         /\ last' = Logged("display", strftime(today), EMPTY, EMPTY, <<now, sec>>, "ok")
  /\ before' = data
  /\ UNCHANGED <<data, disk, today, logged_on>>

\* back at the top of the loop of main()
Menu ==
  /\ last # AtMenu
  /\ last' = AtMenu
  /\ before' = data
  /\ shown' = NoInfo
  /\ logged_on' = IF last.op \in {"log_start", "log_end"} THEN today ELSE logged_on
  /\ UNCHANGED <<data, disk, today>>

\* choice 9 and a new run of main(): the store is read back from the file
Restart ==
  /\ last = AtMenu
  /\ data' = load_data(disk)
  /\ before' = load_data(disk)
  /\ UNCHANGED <<disk, today, last, shown, logged_on>>

\* midnights pass while the loop waits at the menu
DaysPass ==
  /\ last = AtMenu
  /\ today' \in {d \in Days : d > today /\ \A x \in Days : ~(today < x /\ x < d)}
  /\ UNCHANGED <<data, disk, last, before, shown, logged_on>>

Next ==
  \/ LogStart
  \/ LogEnd
  \/ ConfigureLunch
  \/ EditPastDay
  \/ DeleteDay
  \/ View
  \/ DisplayCounter
  \/ Menu
  \/ Restart
  \/ DaysPass

Spec == Init /\ [][Next]_vars

\* The counter on a Friday: the store holds Monday to Thursday as log_start and
\* log_end leave them at the default lunch break, and Friday is not begun, or
\* begun and not ended.
WorkedWeek(ends) ==
  [k \in {SETTINGS} \cup {strftime(day) : day \in WorkedDays} |->
     IF k = SETTINGS THEN DefaultStore[SETTINGS]
     ELSE WithDerived([start |-> WorkedStart, end |-> ends[k[1]]], 0,
                      get_lunch_break_minutes(DefaultStore))]

InitProjection ==
  /\ \E ends \in [WorkedDays -> WorkedEnds] : \E s \in Times \cup {EMPTY} :
       data = IF s = EMPTY THEN WorkedWeek(ends)
              ELSE SetItem(WorkedWeek(ends), strftime(Friday), [start |-> s])
  /\ disk = data
  /\ today = Friday
  /\ last = AtMenu
  /\ before = data
  /\ shown = NoInfo
  /\ logged_on = EMPTY

NextProjection ==
  \/ DisplayCounter
  \/ Menu

SpecProjection == InitProjection /\ [][NextProjection]_vars

(* ---------------------------- the accounting rule, as specified ------- *)
\* end - start in minutes, an end before the start being on the next day
RawMinutes(start, end) == IF end >= start THEN end - start ELSE end - start + 1440
\* h hundredths is n / d rounded to the nearest hundredth-unit: |d*h - n| <= d/2
IsNearest(h, n, d) == 2 * (d * h - n) <= d /\ 2 * (n - d * h) <= d
Complete(e) == Has(e, "start") /\ Has(e, "end")
HasDerived(e) == Has(e, "hours_worked") /\ Has(e, "total_minutes")
\* total_minutes = raw - L and hours_worked = round(total_minutes / 60, 2)
DerivedAsSpecified(e, lunch) ==
  /\ HasDerived(e)
  /\ e["total_minutes"] = RawMinutes(e["start"], e["end"]) - lunch
  /\ IsNearest(e["hours_worked"], 100 * e["total_minutes"], 60)
\* the same rule applied to an end that carried sec seconds when it was logged
DerivedWithSeconds(e, lunch, sec) ==
  LET w == 60 * (RawMinutes(e["start"], e["end"]) - lunch) + sec
  IN /\ HasDerived(e)
     /\ 60 * e["total_minutes"] <= (IF w >= 0 THEN w ELSE w + 59)
     /\ 60 * e["total_minutes"] >= (IF w >= 0 THEN w - 59 ELSE w)
     /\ IsNearest(e["hours_worked"], w, 36)

Saved == last.msg \in {"ok", "saved", "created"}

(* ---------------------------- claims ---------------------------------- *)
\* C1: whenever log-end or edit-day stores derived fields, they are
\* total_minutes = raw - L and hours_worked = round(total_minutes / 60, 2),
\* raw being end - start in minutes (plus 1440 when end < start), unclamped.
C1_DerivedFromStartEndLunch ==
  (last.op \in {"log_end", "edit_past_day"} /\ Saved /\ Complete(data[last.key]))
    => DerivedAsSpecified(data[last.key], get_lunch_break_minutes(data))

\* C2: in every reachable state every entry with both start and end has the
\* total_minutes and hours_worked computed from its current start, its current
\* end and the current lunch setting.  Stated here leaving room for the seconds
\* of the clock reading behind a logged end, so that what TLC refutes is the
\* staleness the claim is about.
C2_NoStaleDerived ==
  \A k \in EntryKeys(data) :
    Complete(data[k]) =>
      \E sec \in 0..59 : DerivedWithSeconds(data[k], get_lunch_break_minutes(data), sec)

\* C3: a log-start with a valid time on a Monday that has no entry, or only an
\* empty one, leaves exactly the settings, unchanged, and the Monday entry
\* holding that start.
C3_MondayRollover ==
  (/\ last.op = "log_start"
   /\ last.s \in Times
   /\ today % 7 = 0
   /\ (last.key \notin DOMAIN before \/ DOMAIN before[last.key] = {}))
    => /\ DOMAIN data = {SETTINGS, last.key}
       /\ data[SETTINGS] = before[SETTINGS]
       /\ DOMAIN data[last.key] = {"start"}
       /\ data[last.key]["start"] = last.s
C3_Witness ==
  /\ last.op = "log_start"
  /\ last.s \in Times
  /\ today % 7 = 0
  /\ last.key \notin DOMAIN before
  /\ Cardinality(EntryKeys(before)) = 2
  /\ \E k \in EntryKeys(before) : k[1] < today - 5 /\ HasDerived(before[k])
  /\ get_lunch_break_minutes(before) = 60
  /\ DOMAIN data = {SETTINGS, last.key}

\* C4: a lunch change through configure-lunch recomputes both derived fields
\* with the new lunch value for every entry with start and end, and leaves
\* every other entry exactly as it was.
C4_LunchChangeRecalculates ==
  (last.op = "configure_lunch" /\ last.msg = "ok")
    => /\ DOMAIN data = DOMAIN before
       /\ \A k \in EntryKeys(before) :
            IF Complete(before[k])
            THEN /\ DOMAIN data[k] = {"start", "end", "hours_worked", "total_minutes"}
                 /\ data[k]["start"] = before[k]["start"]
                 /\ data[k]["end"] = before[k]["end"]
                 /\ DerivedAsSpecified(data[k], get_lunch_break_minutes(data))
            ELSE data[k] = before[k]
C4_Witness ==
  /\ last.op = "configure_lunch"
  /\ last.msg = "ok"
  /\ get_lunch_break_minutes(before) = 30
  /\ get_lunch_break_minutes(data) = 60
  /\ \E k \in EntryKeys(before) :
       /\ Complete(before[k])
       /\ before[k]["total_minutes"] = 450
       /\ data[k]["total_minutes"] = 420
       /\ data[k]["hours_worked"] = 700
  /\ \E k \in EntryKeys(before) : Has(before[k], "start") /\ ~Complete(before[k])

\* C5: edit-day on an existing entry with both prompts left empty leaves the
\* whole store as it was, and the store is persisted.
C5_EmptyEditChangesNothing ==
  (/\ last.op = "edit_past_day"
   /\ last.key \in EntryKeys(before)
   /\ last.s = EMPTY
   /\ last.e = EMPTY)
    => data = before /\ disk = data

\* C6: log-end with no recorded start reports MissingStart and leaves the
\* store unchanged, on every weekday.
C6_MissingStartChangesNothing ==
  (last.op = "log_end" /\ last.msg = "MissingStart") => data = before

\* C7: a command given a time that is not HH:MM leaves the whole store
\* unchanged.
C7_InvalidTimeChangesNothing ==
  (\/ last.op \in {"log_start", "log_end"} /\ last.msg = "InvalidTimeFormat"
   \/ last.op = "edit_past_day" /\ (last.s = BAD \/ last.e = BAD))
    => data = before

C9_DeleteAbsentChangesNothing ==
  last.op = "delete_day" =>
    /\ (last.key \notin EntryKeys(before) /\ last.key # EMPTY_DATE)
         => last.msg = "EntryNotFound" /\ data = before
    /\ last.msg = "DeletionCancelled" => data = before
C9_Witness ==
  /\ last.op = "delete_day"
  /\ last.key = SETTINGS
  /\ last.msg = "EntryNotFound"
  /\ Cardinality(EntryKeys(before)) = 2
  /\ data = before

\* C10: weeklyHours(referenceDate) is the sum of the stored hours_worked of the
\* entries dated in the 7 days from the Monday on or before referenceDate.
RECURSIVE SumHours(_, _)
SumHours(d, keys) ==
  IF keys = {} THEN 0
  ELSE LET k == CHOOSE x \in keys : TRUE
       IN (IF Has(d[k], "hours_worked") THEN d[k]["hours_worked"] ELSE 0)
          + SumHours(d, keys \ {k})
DatedInWeekOf(d, ref) ==
  {k \in EntryKeys(d) : \E i \in 0..6 : k[1] = ref - (ref % 7) + i}
C10_WeeklyHoursSumsTheWeek ==
  \A ref \in Days : get_weekly_hours(data, ref) = SumHours(data, DatedInWeekOf(data, ref))

\* the counter has just been displayed for an active session
Displayed == last.op = "display" /\ Active(data, today) /\ DOMAIN shown # {}
\* weekly hours summed from the stored entries of today's week, in hundredths
StoredWeeklyHours == SumHours(data, DatedInWeekOf(data, today))
ElapsedShown == 60 * shown.elapsed_hours + shown.elapsed_minutes

\* C11: for an active session show_35h_target is true exactly when the weekly
\* hours summed from the stored entries exceed 27 (false at 26 and at 27, true
\* at 28), and when it is false time_to_leave_35h is absent and the hours and
\* minutes until 35 h are 0.
C11_ShownAbove27 ==
  Displayed =>
    /\ shown.show_35h_target <=> StoredWeeklyHours > 2700
    /\ StoredWeeklyHours \in {2600, 2700} => ~shown.show_35h_target
    /\ StoredWeeklyHours = 2800 => shown.show_35h_target
    /\ ~shown.show_35h_target =>
         /\ shown.time_to_leave_35h = EMPTY
         /\ shown.hours_until_35h = 0
         /\ shown.mins_until_35h = 0
C11_Witness ==
  /\ Displayed
  /\ StoredWeeklyHours = 2700
  /\ ~shown.show_35h_target
  /\ shown.time_to_leave_35h = EMPTY

\* C12: in every reachable state each entry has hours_worked and total_minutes
\* both present or both absent, and absent unless it has both start and end;
\* so an entry of today that is started and not ended adds nothing to the
\* weekly total.
C12_DerivedOnlyWhenComplete ==
  /\ \A k \in EntryKeys(data) :
       /\ Has(data[k], "hours_worked") <=> Has(data[k], "total_minutes")
       /\ Has(data[k], "hours_worked") => Complete(data[k])
  /\ Active(data, today) =>
       get_weekly_hours(data, today) = get_weekly_hours(DelItem(data, strftime(today)), today)
C12_Witness ==
  /\ Displayed
  /\ \E k \in EntryKeys(data) : HasDerived(data[k]) /\ data[k]["hours_worked"] > 0

\* C13: in every reachable state every entry that has an end also has a start.
C13_EndRequiresStart ==
  \A k \in EntryKeys(data) : Has(data[k], "end") => Has(data[k], "start")

\* C14: when the weekly projection is gated on, the minutes needed today are
\* (35 - weekly hours) * 60 - worked minutes, plus the lunch break when the
\* elapsed minutes are <= 240; the countdown is suppressed exactly when that
\* value, after the lunch addition, is <= 0, and otherwise the leave time is
\* now + needed and the countdown is needed split into hours and minutes.
\* The needed minutes are counted in fifths of a minute, and the statement is
\* read for a clock that is not earlier than the start.
C14_CountdownAfterLunchAddition ==
  (Displayed /\ shown.show_35h_target /\ last.clock[1] >= shown.start_time) =>
    LET needed5 == 3 * (3500 - StoredWeeklyHours) - 5 * shown.total_work_minutes
                   + (IF ElapsedShown <= 240 THEN 5 * shown.lunch_minutes ELSE 0)
    IN /\ needed5 <= 0 <=> shown.time_to_leave_35h = EMPTY
       /\ needed5 <= 0 => shown.hours_until_35h = 0 /\ shown.mins_until_35h = 0
       /\ needed5 > 0 =>
            /\ shown.time_to_leave_35h = (last.clock[1] + (needed5 \div 5)) % 1440
            /\ 60 * shown.hours_until_35h + shown.mins_until_35h = needed5 \div 5

\* C15: for every active session the elapsed minutes of the projection follow
\* the overnight rule (a clock earlier than the start counts as the next day),
\* so the elapsed and the worked times shown are never negative.
C15_ElapsedOvernight ==
  Displayed =>
    /\ ElapsedShown = RawMinutes(shown.start_time, last.clock[1])
    /\ shown.elapsed_hours >= 0
    /\ shown.total_work_minutes >= 0

\* C16: once a log-start or a log-end has been issued on a Monday, no later
\* log-start or log-end of that date clears the store; and a Monday log-end
\* issued when the Monday entry has a start clears no entry.
\* Read for the entries that hold something: none of them is lost.
Recorded(d) == {k \in EntryKeys(d) : DOMAIN d[k] # {}}
C16_ClearsOnlyOnFirstLog ==
  (last.op \in {"log_start", "log_end"} /\ today % 7 = 0) =>
    /\ logged_on = today => Recorded(before) \subseteq EntryKeys(data)
    /\ (last.op = "log_end" /\ Active(before, today)) =>
         Recorded(before) \subseteq EntryKeys(data)

\* C17: when a command of the menu loop has completed, the file holds the
\* in-memory store: no command leaves a change of self.data that is not saved.
C17_EveryChangeIsSaved ==
  (last.op # "menu" /\ data # before) => disk = data

====
